---------------------------- MODULE Spec2Model ----------------------------
(***************************************************************************)
(* B-Tree of src/include/btree.h and src/include/btree_node.h.             *)
(*                                                                         *)
(* The heap is a sequence of node records; a node reference is its index   *)
(* in the heap and NullPtr is the null reference.  A node keeps the fixed  *)
(* capacity arrays of the code: keys[0..2t-2] and children[0..2t-1], with  *)
(* the slots at index >= n holding whatever was last written there.        *)
(*                                                                         *)
(* nodes_before is the number of nodes that were allocated before the last *)
(* operation on the tree: the nodes above it were allocated by that        *)
(* operation.  released is the order in which the destructor of the tree   *)
(* released the nodes, empty while the tree exists.                        *)
(***************************************************************************)
EXTENDS Integers, Sequences, FiniteSets

VARIABLES t, root, heap, inserted, op, arg, found, out, nodes_before,
          released

vars == <<t, root, heap, inserted, op, arg, found, out, nodes_before,
          released>>

---------------------------------------------------------------------------
(* Bounds of the model. *)

MaxDegree == 3
MaxKey == 2
MaxInserts == 9

(* Program constants. *)

MinDegree == 2
NullPtr == 0
DefaultKey == 0

Keys == (-1)..MaxKey
Degrees == MinDegree..MaxDegree

---------------------------------------------------------------------------
(* BTreeNode<T>::BTreeNode(_t, _is_leaf): n = 0, keys.resize(2t-1) value-  *)
(* initialises the key slots, children.resize(2t, nullptr).                *)
BTreeNode(_t, _is_leaf) ==
    [is_leaf  |-> _is_leaf,
     n        |-> 0,
     keys     |-> [j \in 0..(2 * _t - 2) |-> DefaultKey],
     children |-> [j \in 0..(2 * _t - 1) |-> NullPtr]]

(* `new BTreeNode<T>(...)`: the node is appended to the heap, its          *)
(* reference is the new length of the heap.                                *)
New(h, _t, _is_leaf) == Append(h, BTreeNode(_t, _is_leaf))

(* ShiftRight that stops one slot early: for (j = hi; j > lo; j--).        *)
RECURSIVE ShiftRight_StopsEarly(_, _, _)
ShiftRight_StopsEarly(a, hi, lo) ==
    IF hi > lo
    THEN ShiftRight_StopsEarly([a EXCEPT ![hi + 1] = a[hi]], hi - 1, lo)
    ELSE a

(* The loop `for (j = hi; j >= lo; j--) a[j + 1] = a[j];` of split_child.  *)
RECURSIVE ShiftRight(_, _, _)
ShiftRight(a, hi, lo) ==
    IF hi >= lo
    THEN ShiftRight([a EXCEPT ![hi + 1] = a[hi]], hi - 1, lo)
    ELSE a

(* CopyUpper reading one slot too low: dst[j] = src[j + off - 1].          *)
RECURSIVE CopyUpper_OffByOne(_, _, _, _, _)
CopyUpper_OffByOne(dst, src, off, j, cnt) ==
    IF j < cnt
    THEN CopyUpper_OffByOne([dst EXCEPT ![j] = src[j + off - 1]],
                            src, off, j + 1, cnt)
    ELSE dst

(* The loop `for (j = 0; j < cnt; j++) dst[j] = src[j + off];`.            *)
RECURSIVE CopyUpper(_, _, _, _, _)
CopyUpper(dst, src, off, j, cnt) ==
    IF j < cnt
    THEN CopyUpper([dst EXCEPT ![j] = src[j + off]], src, off, j + 1, cnt)
    ELSE dst

(* ClearUpper stopping one slot short: for (j = 0; j < cnt - 1; j++).      *)
RECURSIVE ClearUpper_OneShort(_, _, _, _)
ClearUpper_OneShort(a, off, j, cnt) ==
    IF j < cnt - 1
    THEN ClearUpper_OneShort([a EXCEPT ![j + off] = NullPtr], off, j + 1, cnt)
    ELSE a

(* ClearUpper without the assignment of nullptr.                           *)
ClearUpper_Omitted(a, off, j, cnt) == a

(* The loop body `y->children[j + t] = nullptr` for j in 0..cnt-1.         *)
RECURSIVE ClearUpper(_, _, _, _)
ClearUpper(a, off, j, cnt) ==
    IF j < cnt
    THEN ClearUpper([a EXCEPT ![j + off] = NullPtr], off, j + 1, cnt)
    ELSE a

(* IsFull testing one key too many: n == 2 * t.                            *)
IsFull_Late(node) == node.n = 2 * t

(* IsFull testing one key too few: n >= 2 * t - 2.                         *)
IsFull_Early(node) == node.n >= 2 * t - 2

(* IsFull written with > for ==: n > 2 * t - 1.                            *)
IsFull_Greater(node) == node.n > 2 * t - 1

(* The test `n == 2 * t - 1` that insert and insert_non_full make before   *)
(* they split a node.                                                      *)
IsFull(node) == node.n = 2 * t - 1

(* NewSibling built as `new BTreeNode<T>(t, true)` whatever y is.          *)
NewSibling_AlwaysLeaf(ynode) ==
    [BTreeNode(t, TRUE) EXCEPT
        !.n = t - 1,
        !.keys = CopyUpper(@, ynode.keys, t, 0, t - 1),
        !.children = IF ~ynode.is_leaf
                     THEN CopyUpper(@, ynode.children, t, 0, t)
                     ELSE @]

(* NewSibling with one key too many: z->n = t.                             *)
NewSibling_OneMore(ynode) ==
    [BTreeNode(t, ynode.is_leaf) EXCEPT
        !.n = t,
        !.keys = CopyUpper(@, ynode.keys, t, 0, t - 1),
        !.children = IF ~ynode.is_leaf
                     THEN CopyUpper(@, ynode.children, t, 0, t)
                     ELSE @]

(* The node z that split_child builds from the full node y: the leafness   *)
(* of y, t-1 keys copied from y's keys[t..2t-2] and, when y is internal,   *)
(* y's children[t..2t-1].                                                  *)
NewSibling(ynode) ==
    [BTreeNode(t, ynode.is_leaf) EXCEPT
        !.n = t - 1,
        !.keys = CopyUpper(@, ynode.keys, t, 0, t - 1),
        !.children = IF ~ynode.is_leaf
                     THEN CopyUpper(@, ynode.children, t, 0, t)
                     ELSE @]

(* BTreeNode<T>::split_child(i, y) called on node x of heap h.  The result *)
(* is the heap after the call; z, the node it allocates, is the last node  *)
(* of that heap.                                                           *)
split_child(h, x, i, y) ==
    LET h0 == Append(h, NewSibling(h[y]))
        z  == Len(h0)
        ychildren == IF ~h[y].is_leaf
                     THEN ClearUpper(h[y].children, t, 0, t)
                     ELSE h[y].children
        h1 == [h0 EXCEPT ![y].children = ychildren,
                         ![y].n = t - 1]
        xchildren == [ShiftRight(h1[x].children, h1[x].n, i + 1)
                         EXCEPT ![i + 1] = z]
        xkeys == [ShiftRight(h1[x].keys, h1[x].n - 1, i)
                         EXCEPT ![i] = h1[y].keys[t - 1]]
    IN  [h1 EXCEPT ![x].children = xchildren,
                   ![x].keys = xkeys,
                   ![x].n = h1[x].n + 1]

(* LeafShift that never compares keys[0]: while (i > 0 && keys[i] > k).    *)
RECURSIVE LeafShift_SkipFirst(_, _, _)
LeafShift_SkipFirst(a, i, k) ==
    IF i > 0 /\ a[i] > k
    THEN LeafShift_SkipFirst([a EXCEPT ![i + 1] = a[i]], i - 1, k)
    ELSE [keys |-> a, i |-> i]

(* LeafShift without the move `keys[i + 1] = keys[i]`.                     *)
RECURSIVE LeafShift_NoMove(_, _, _)
LeafShift_NoMove(a, i, k) ==
    IF i >= 0 /\ a[i] > k
    THEN LeafShift_NoMove(a, i - 1, k)
    ELSE [keys |-> a, i |-> i]

(* The leaf loop of insert_non_full:                                       *)
(*   while (i >= 0 && keys[i] > k) { keys[i + 1] = keys[i]; i--; }         *)
(* The result is the key array and the final i.                            *)
RECURSIVE LeafShift(_, _, _)
LeafShift(a, i, k) ==
    IF i >= 0 /\ a[i] > k
    THEN LeafShift([a EXCEPT ![i + 1] = a[i]], i - 1, k)
    ELSE [keys |-> a, i |-> i]

(* FindChild that never compares keys[0]: while (i > 0 && keys[i] > k).    *)
RECURSIVE FindChild_SkipFirst(_, _, _)
FindChild_SkipFirst(a, i, k) ==
    IF i > 0 /\ a[i] > k THEN FindChild_SkipFirst(a, i - 1, k) ELSE i

(* FindChild with the comparison reversed: while (i >= 0 && keys[i] < k).  *)
RECURSIVE FindChild_Reversed(_, _, _)
FindChild_Reversed(a, i, k) ==
    IF i >= 0 /\ a[i] < k THEN FindChild_Reversed(a, i - 1, k) ELSE i

(* The internal loop of insert_non_full:                                   *)
(*   while (i >= 0 && keys[i] > k) i--;                                    *)
RECURSIVE FindChild(_, _, _)
FindChild(a, i, k) ==
    IF i >= 0 /\ a[i] > k THEN FindChild(a, i - 1, k) ELSE i

(* PostSplitIndex with the comparison reversed: if (keys[i + 1] > k) i++.  *)
PostSplitIndex_Reversed(a, i, k) == IF a[i + 1] > k THEN i + 1 ELSE i

(* PostSplitIndex without the re-comparison: the index found before the    *)
(* split is kept.                                                          *)
PostSplitIndex_NoRecompare(a, i, k) == i

(* The re-comparison after a child split in insert_non_full:               *)
(*   if (keys[i + 1] < k) i++;                                             *)
PostSplitIndex(a, i, k) == IF a[i + 1] < k THEN i + 1 ELSE i

(* BTreeNode<T>::insert_non_full(k) called on node x of heap h.            *)
RECURSIVE insert_non_full(_, _, _)
insert_non_full(h, x, k) ==
    IF h[x].is_leaf
    THEN LET r == LeafShift(h[x].keys, h[x].n - 1, k)
         IN  [h EXCEPT ![x].keys = [r.keys EXCEPT ![r.i + 1] = k],
                       ![x].n = h[x].n + 1]
    ELSE LET i == FindChild(h[x].keys, h[x].n - 1, k)
             c == h[x].children[i + 1]
         IN  IF IsFull(h[c])
             THEN LET h1 == split_child(h, x, i + 1, c)
                      i2 == PostSplitIndex(h1[x].keys, i, k)
                  IN  insert_non_full(h1, h1[x].children[i2 + 1], k)
             ELSE insert_non_full(h, c, k)

(* RootChoice comparing with <=: a key equal to the median goes right.     *)
RootChoice_LessEq(a, k) == IF a[0] <= k THEN 1 ELSE 0

(* The choice of the child of the new root in BTree<T>::insert:            *)
(*   int i = 0; if (s->keys[0] < k) i++;                                   *)
RootChoice(a, k) == IF a[0] < k THEN 1 ELSE 0

(* insert without the assignment `root = s` that ends the root split.      *)
insert_KeepsRoot(h, r, k) ==
    IF r = NullPtr
    THEN LET h0 == New(h, t, TRUE)
             x  == Len(h0)
         IN  [heap |-> [h0 EXCEPT ![x].keys[0] = k, ![x].n = 1],
              root |-> x]
    ELSE IF IsFull(h[r])
         THEN LET h0 == New(h, t, FALSE)
                  s  == Len(h0)
                  h1 == [h0 EXCEPT ![s].children[0] = r]
                  h2 == split_child(h1, s, 0, r)
                  i  == RootChoice(h2[s].keys, k)
              IN  [heap |-> insert_non_full(h2, h2[s].children[i], k),
                   root |-> r]
         ELSE [heap |-> insert_non_full(h, r, k), root |-> r]

(* BTree<T>::insert(k): the heap and the root reference after the call.    *)
insert(h, r, k) ==
    IF r = NullPtr
    THEN LET h0 == New(h, t, TRUE)
             x  == Len(h0)
         IN  [heap |-> [h0 EXCEPT ![x].keys[0] = k, ![x].n = 1],
              root |-> x]
    ELSE IF IsFull(h[r])
         THEN LET h0 == New(h, t, FALSE)
                  s  == Len(h0)
                  h1 == [h0 EXCEPT ![s].children[0] = r]
                  h2 == split_child(h1, s, 0, r)
                  i  == RootChoice(h2[s].keys, k)
              IN  [heap |-> insert_non_full(h2, h2[s].children[i], k),
                   root |-> s]
         ELSE [heap |-> insert_non_full(h, r, k), root |-> r]

(* A node-level call fn made on node x when the heap is h; for split_child *)
(* i and y are its arguments.                                              *)
Call(fn, h, x, i, y) == [fn |-> fn, heap |-> h, node |-> x, i |-> i, y |-> y]

(* The calls that insert_non_full(k) on node x of heap h makes, itself     *)
(* included, in the order of the calls.                                    *)
RECURSIVE insert_non_full_calls(_, _, _)
insert_non_full_calls(h, x, k) ==
    <<Call("insert_non_full", h, x, 0, NullPtr)>> \o
    IF h[x].is_leaf
    THEN <<>>
    ELSE LET i == FindChild(h[x].keys, h[x].n - 1, k)
             c == h[x].children[i + 1]
         IN  IF IsFull(h[c])
             THEN LET h1 == split_child(h, x, i + 1, c)
                      i2 == PostSplitIndex(h1[x].keys, i, k)
                  IN  <<Call("split_child", h, x, i + 1, c)>> \o
                      insert_non_full_calls(h1, h1[x].children[i2 + 1], k)
             ELSE insert_non_full_calls(h, c, k)

(* The node-level calls that BTree<T>::insert(k) makes.                    *)
insert_calls(h, r, k) ==
    IF r = NullPtr
    THEN <<>>
    ELSE IF IsFull(h[r])
         THEN LET h0 == New(h, t, FALSE)
                  s  == Len(h0)
                  h1 == [h0 EXCEPT ![s].children[0] = r]
                  h2 == split_child(h1, s, 0, r)
                  i  == RootChoice(h2[s].keys, k)
              IN  <<Call("split_child", h1, s, 0, r)>> \o
                  insert_non_full_calls(h2, h2[s].children[i], k)
         ELSE insert_non_full_calls(h, r, k)

(* ScanKeys that also steps over keys equal to k: k >= keys[i].            *)
RECURSIVE ScanKeys_SkipEqual(_, _, _, _)
ScanKeys_SkipEqual(a, n, i, k) ==
    IF i < n /\ k >= a[i] THEN ScanKeys_SkipEqual(a, n, i + 1, k) ELSE i

(* The scan `while (i < n && k > keys[i]) i++;` of BTreeNode<T>::search.   *)
RECURSIVE ScanKeys(_, _, _, _)
ScanKeys(a, n, i, k) ==
    IF i < n /\ k > a[i] THEN ScanKeys(a, n, i + 1, k) ELSE i

(* Match that also looks at the slot keys[n]: i <= n.                      *)
Match_StaleSlot(a, n, i, k) == i <= n /\ i \in DOMAIN a /\ a[i] = k

(* The test `i < n && keys[i] == k` of BTreeNode<T>::search.               *)
Match(a, n, i, k) == i < n /\ a[i] = k

(* BTreeNode<T>::search(k) on node x: the node found, or NullPtr.          *)
RECURSIVE node_search(_, _, _)
node_search(h, x, k) ==
    LET i == ScanKeys(h[x].keys, h[x].n, 0, k)
    IN  IF Match(h[x].keys, h[x].n, i, k)
        THEN x
        ELSE IF h[x].is_leaf
             THEN NullPtr
             ELSE IF h[x].children[i] = NullPtr /\ i <= h[x].n
                  THEN NullPtr
                  ELSE node_search(h, h[x].children[i], k)

(* The calls of BTreeNode<T>::search(k) that a search from node x makes;   *)
(* i is the index where the scan stopped.                                  *)
RECURSIVE search_calls(_, _, _)
search_calls(h, x, k) ==
    LET i == ScanKeys(h[x].keys, h[x].n, 0, k)
    IN  <<Call("search", h, x, i, NullPtr)>> \o
        IF Match(h[x].keys, h[x].n, i, k)
        THEN <<>>
        ELSE IF h[x].is_leaf
             THEN <<>>
             ELSE IF h[x].children[i] = NullPtr /\ i <= h[x].n
                  THEN <<>>
                  ELSE search_calls(h, h[x].children[i], k)

(* BTree<T>::search(k).                                                    *)
search(h, r, k) ==
    IF r = NullPtr THEN FALSE ELSE node_search(h, r, k) # NullPtr

(* BTreeNode<T>::traverse() on node x: the keys it prints, in order.       *)
RECURSIVE node_traverse(_, _)
RECURSIVE TraverseFrom(_, _, _)
TraverseFrom(h, x, i) ==
    IF i < h[x].n
    THEN (IF ~h[x].is_leaf /\ h[x].children[i] # NullPtr
          THEN node_traverse(h, h[x].children[i])
          ELSE <<>>)
         \o <<h[x].keys[i]>> \o TraverseFrom(h, x, i + 1)
    ELSE IF ~h[x].is_leaf /\ h[x].children[i] # NullPtr
         THEN node_traverse(h, h[x].children[i])
         ELSE <<>>

node_traverse(h, x) == TraverseFrom(h, x, 0)

(* BTree<T>::traverse().                                                   *)
traverse(h, r) == IF r = NullPtr THEN <<>> ELSE node_traverse(h, r)

(* BTreeNode<T>::~BTreeNode() run by `delete x`: the nodes released, in    *)
(* the order of their release.  The destructor of an internal node deletes *)
(* the non-null children in its slots 0..n, each delete running the        *)
(* destructor of that child first; the node itself is released last.       *)
RECURSIVE DeleteNode(_, _), DeleteChildren(_, _, _)
DeleteChildren(h, x, i) ==
    IF i > h[x].n
    THEN <<>>
    ELSE (IF h[x].children[i] # NullPtr
          THEN DeleteNode(h, h[x].children[i])
          ELSE <<>>) \o DeleteChildren(h, x, i + 1)

DeleteNode(h, x) ==
    (IF h[x].is_leaf THEN <<>> ELSE DeleteChildren(h, x, 0)) \o <<x>>

(* BTree<T>::~BTree(): `delete root`, which does nothing for nullptr.      *)
DeleteTree(h, r) == IF r = NullPtr THEN <<>> ELSE DeleteNode(h, r)

(* The storage that a call touches: the indices at which it reads or       *)
(* writes a keys array, those at which it reads or writes a children       *)
(* array, and the references through which it reaches a node.              *)
Touched(ks, cs, ds) == [keys |-> ks, children |-> cs, derefs |-> ds]

(* split_child(i, y) called on node x of heap h.  The copy loops touch     *)
(* z->keys[j] and y->keys[j + t] for j < t-1 and, when y is internal,      *)
(* z->children[j] and y->children[j + t] for j < t; the shift loops touch  *)
(* children[j] and children[j + 1] for j in i+1..n, and keys[j] and        *)
(* keys[j + 1] for j in i..n-1; then children[i + 1], keys[i] and          *)
(* y->keys[t - 1].  It reaches y through its argument and z through the    *)
(* reference that new returns, which is the next node of the heap.         *)
split_child_slots(h, x, i, y) ==
    LET n == h[x].n
    IN  Touched(
            (0..(t - 2)) \cup {j + t : j \in 0..(t - 2)} \cup
            (i..(n - 1)) \cup {j + 1 : j \in i..(n - 1)} \cup {i, t - 1},
            (IF y # NullPtr /\ ~h[y].is_leaf
             THEN (0..(t - 1)) \cup {j + t : j \in 0..(t - 1)}
             ELSE {}) \cup
            ((i + 1)..n) \cup {j + 1 : j \in (i + 1)..n} \cup {i + 1},
            {y, Len(h) + 1})

(* insert_non_full(k) called on node x of heap h, without the calls it     *)
(* makes; h1 is the heap when it calls insert_non_full on a child, after   *)
(* the split if it makes one.  A leaf reads keys[j] down from n-1 to the   *)
(* slot where the loop stops and writes keys[j + 1] for the keys it moves  *)
(* and for k.  An internal node reads keys[j] likewise, reads              *)
(* children[i + 1] and looks at that child; after a split it reads         *)
(* keys[i + 1]; it calls insert_non_full through children[i + 1].          *)
insert_non_full_slots(h, h1, x, k) ==
    LET n == h[x].n
    IN  IF h[x].is_leaf
        THEN LET i == LeafShift(h[x].keys, n - 1, k).i
             IN  Touched({j \in i..(n - 1) : j >= 0} \cup ((i + 1)..n), {}, {})
        ELSE LET i == FindChild(h[x].keys, n - 1, k)
                 c == h[x].children[i + 1]
             IN  IF c # NullPtr /\ IsFull(h[c])
                 THEN LET i2 == PostSplitIndex(h1[x].keys, i, k)
                      IN  Touched({j \in i..(n - 1) : j >= 0} \cup {i + 1},
                                  {i + 1, i2 + 1},
                                  {c, h1[x].children[i2 + 1]})
                 ELSE Touched({j \in i..(n - 1) : j >= 0}, {i + 1}, {c})

(* BTree<T>::insert(k), without the node-level calls it makes; h2 is the   *)
(* heap after the split of the root, if it makes one.  It touches          *)
(* root->keys[0] of the new leaf for the empty tree; else root->n and,     *)
(* when the root is full, s->children[0], s->keys[0] and the call through  *)
(* s->children[i].                                                         *)
insert_slots(h, h2, r, k) ==
    IF r = NullPtr
    THEN Touched({0}, {}, {Len(h) + 1})
    ELSE IF IsFull(h[r])
         THEN LET s == Len(h) + 1
                  i == RootChoice(h2[s].keys, k)
              IN  Touched({0}, {0, i}, {r, s, h2[s].children[i]})
         ELSE Touched({}, {}, {r})

(* BTreeNode<T>::search(k) on node x, without the call it makes: the scan  *)
(* reads keys[j] up to the slot i where it stops, if i < n; an internal    *)
(* node without a match reads children[i], and calls search through it     *)
(* unless it is null, which is the case of the guard.                      *)
search_slots(h, x, k) ==
    LET n == h[x].n
        i == ScanKeys(h[x].keys, n, 0, k)
    IN  IF Match(h[x].keys, n, i, k) \/ h[x].is_leaf
        THEN Touched({j \in 0..i : j < n}, {}, {})
        ELSE Touched({j \in 0..i : j < n}, {i},
                     {h[x].children[i]} \ {NullPtr})

(* The guard of BTreeNode<T>::search on node x is taken:                   *)
(*   children[i] == nullptr && i <= n,                                     *)
(* on an internal node without a match.                                    *)
search_guard(h, x, k) ==
    LET n == h[x].n
        i == ScanKeys(h[x].keys, n, 0, k)
    IN  /\ ~Match(h[x].keys, n, i, k)
        /\ ~h[x].is_leaf
        /\ h[x].children[i] = NullPtr
        /\ i <= n

(* BTreeNode<T>::traverse() on node x, without the calls it makes: keys[i] *)
(* for i < n and, on an internal node, children[i] for i <= n, each child  *)
(* being called only if it is not null.                                    *)
traverse_slots(h, x) ==
    Touched(0..(h[x].n - 1),
            IF h[x].is_leaf THEN {} ELSE 0..h[x].n,
            IF h[x].is_leaf
            THEN {}
            ELSE {h[x].children[i] :
                      i \in {j \in 0..h[x].n :
                                j \in DOMAIN h[x].children
                                /\ h[x].children[j] # NullPtr}})

---------------------------------------------------------------------------
(* The number of insert calls made so far: the sum of the counts of the    *)
(* keys lo..hi in the record of inserted keys.                             *)
RECURSIVE SumOver(_, _, _)
SumOver(f, lo, hi) ==
    IF lo > hi THEN 0 ELSE f[lo] + SumOver(f, lo + 1, hi)

NumInserted == SumOver(inserted, -1, MaxKey)

(* BTree<T>::BTree(_t): an empty tree of degree _t >= 2. *)
Init ==
    /\ t \in Degrees
    /\ root = NullPtr
    /\ heap = <<>>
    /\ inserted = [k \in Keys |-> 0]
    /\ op = "new"
    /\ arg = DefaultKey
    /\ found = FALSE
    /\ out = <<>>
    /\ nodes_before = 0
    /\ released = <<>>

(* The tree object exists: its destructor has not run.  The states of the  *)
(* tree and of its nodes that the properties below speak of are those of   *)
(* a tree that exists.                                                     *)
Alive == op # "delete"

(* A call of tree.insert(k). *)
Insert(k) ==
    /\ Alive
    /\ NumInserted < MaxInserts
    /\ LET r == insert(heap, root, k)
       IN  /\ heap' = r.heap
           /\ root' = r.root
    /\ nodes_before' = Len(heap)
    /\ inserted' = [inserted EXCEPT ![k] = @ + 1]
    /\ op' = "insert"
    /\ arg' = k
    /\ found' = FALSE
    /\ out' = <<>>
    /\ UNCHANGED <<t, released>>

(* A search that stores k in the root slot where its scan stopped.         *)
Search_Stores(k) ==
    /\ Alive
    /\ found' = search(heap, root, k)
    /\ nodes_before' = Len(heap)
    /\ op' = "search"
    /\ arg' = k
    /\ out' = <<>>
    /\ heap' = IF root = NullPtr
               THEN heap
               ELSE LET i == ScanKeys(heap[root].keys, heap[root].n, 0, k)
                    IN  IF i < heap[root].n
                        THEN [heap EXCEPT ![root].keys[i] = k]
                        ELSE heap
    /\ UNCHANGED <<t, root, inserted, released>>

(* A call of tree.search(k). *)
Search(k) ==
    /\ Alive
    /\ found' = search(heap, root, k)
    /\ nodes_before' = Len(heap)
    /\ op' = "search"
    /\ arg' = k
    /\ out' = <<>>
    /\ UNCHANGED <<t, root, heap, inserted, released>>

(* A call of tree.traverse(). *)
Traverse ==
    /\ Alive
    /\ out' = traverse(heap, root)
    /\ nodes_before' = Len(heap)
    /\ op' = "traverse"
    /\ arg' = DefaultKey
    /\ found' = FALSE
    /\ UNCHANGED <<t, root, heap, inserted, released>>

(* The end of the tree's lifetime, ~BTree(): `delete root` releases the     *)
(* root's subtree, children before their parent (~BTreeNode), and then     *)
(* `root = nullptr` is stored into an object whose lifetime is over.  No   *)
(* later read of that storage is defined: a build that keeps the store     *)
(* leaves nullptr there, a build that drops it as dead leaves the stale    *)
(* reference.  `released` is the order of the releases; a node stays on    *)
(* the heap unless it was released, and when every node was released       *)
(* exactly once the heap is empty.  No member function runs afterwards.    *)
Destroy ==
    /\ Alive
    /\ \E order \in {DeleteTree(heap, root)} :
          /\ released' = order
          /\ heap' = IF /\ Len(order) = Len(heap)
                        /\ {order[j] : j \in 1..Len(order)} = 1..Len(heap)
                     THEN <<>>
                     ELSE heap
    /\ root' \in {NullPtr, root}
    /\ nodes_before' = Len(heap)
    /\ op' = "delete"
    /\ arg' = DefaultKey
    /\ found' = FALSE
    /\ out' = <<>>
    /\ UNCHANGED <<t, inserted>>

Next ==
    \/ \E k \in Keys : Insert(k)
    \/ \E k \in Keys : Search(k)
    \/ Traverse
    \/ Destroy

Spec == Init /\ [][Next]_vars

TypeOK ==
    /\ t \in Degrees
    /\ Alive => root \in 0..Len(heap)
    /\ op \in {"new", "insert", "search", "traverse", "delete"}
    /\ arg \in Keys
    /\ found \in BOOLEAN
    /\ Alive => nodes_before \in 0..Len(heap)
    /\ Alive => released = <<>>
    /\ \A j \in 1..Len(released) : released[j] \in 1..nodes_before

---------------------------------------------------------------------------
(* Vocabulary of the properties. *)

(* The in-order key sequence of the tree in the current state. *)
Traversal == traverse(heap, root)

(* The number of occurrences of k in the sequence s. *)
Count(s, k) == Cardinality({j \in 1..Len(s) : s[j] = k})

NonDecreasing(s) == \A j \in 1..(Len(s) - 1) : s[j] <= s[j + 1]

(* The allocated nodes. *)
Nodes == 1..Len(heap)

(* The depths (root = 1) of the leaves below node x, which is at depth d,  *)
(* following the child slots 0..n of internal nodes.                       *)
RECURSIVE LeafDepths(_, _, _)
LeafDepths(h, x, d) ==
    IF h[x].is_leaf
    THEN {d}
    ELSE UNION {IF h[x].children[j] = NullPtr
                THEN {}
                ELSE LeafDepths(h, h[x].children[j], d + 1) : j \in 0..h[x].n}

SetMax(S) == CHOOSE m \in S : \A e \in S : e <= m

(* The number of levels from node x down to its deepest leaf, following    *)
(* the child slots 0..n of internal nodes.                                 *)
RECURSIVE Levels(_, _)
Levels(h, x) ==
    IF h[x].is_leaf
    THEN 1
    ELSE 1 + SetMax({IF h[x].children[j] = NullPtr
                     THEN 0
                     ELSE Levels(h, h[x].children[j]) : j \in 0..h[x].n})

(* The height of a tree: 0 when empty, else the depth of its deepest leaf. *)
HeightOf(h, r) == IF r = NullPtr THEN 0 ELSE Levels(h, r)

Height == HeightOf(heap, root)

(* The live keys keys[0..n-1] of a node, as a sequence. *)
LiveKeys(node) == [j \in 1..node.n |-> node.keys[j - 1]]

(* The nodes that the last operation allocated. *)
NewNodes == (nodes_before + 1)..Len(heap)

(* A step of the tree is an insert exactly when the record of inserted     *)
(* keys changes.                                                           *)
IsInsertStep == inserted' # inserted

---------------------------------------------------------------------------
(* C1: after any sequence of inserts the in-order traversal holds exactly  *)
(* the multiset of the keys passed to insert: a key inserted m times       *)
(* occurs m times, and the traversal has no other element.                 *)
C1_TraversalIsInsertedMultiset ==
    Alive =>
        LET tr == Traversal
        IN  /\ Len(tr) = NumInserted
            /\ \A k \in Keys : Count(tr, k) = inserted[k]
            /\ \A j \in 1..Len(tr) : tr[j] \in Keys
            /\ (op = "traverse") => out = tr

(* A tree of three levels that holds some key at least twice, right after  *)
(* an insert.                                                              *)
C1_Witness ==
    /\ Alive
    /\ Height = 3
    /\ \E k \in Keys : inserted[k] >= 2
    /\ op = "insert"

(* C2: in every reachable state the in-order traversal is non-decreasing.  *)
C2_TraversalNonDecreasing ==
    Alive =>
        LET tr == Traversal IN NonDecreasing(tr)

(* A tree of three levels with at least three different keys, one of them  *)
(* held twice, printed by traverse.                                        *)
C2_Witness ==
    /\ Alive
    /\ Height = 3
    /\ Cardinality({k \in Keys : inserted[k] > 0}) >= 3
    /\ \E k \in Keys : inserted[k] >= 2
    /\ op = "traverse"
    /\ out = Traversal

(* C3: search(k) is true for every key k passed to insert earlier, also    *)
(* when k was inserted more than once, when its node has been split and    *)
(* when a copy of it has been promoted into an internal node.              *)
C3_InsertedKeysFound ==
    Alive =>
        /\ \A k \in Keys : inserted[k] > 0 => search(heap, root, k)
        /\ (op = "search" /\ inserted[arg] > 0) => found

(* A search that finds a key inserted more than once in an internal node   *)
(* below the root.                                                         *)
C3_Witness ==
    /\ Alive
    /\ op = "search"
    /\ found
    /\ inserted[arg] >= 2
    /\ root # NullPtr
    /\ LET x == node_search(heap, root, arg)
       IN  x # NullPtr /\ x # root /\ ~heap[x].is_leaf

(* C4: search(k) is false for every key k never passed to insert; a key    *)
(* slot at index >= n is never matched.                                    *)
C4_AbsentKeysNotFound ==
    Alive =>
        /\ \A k \in Keys : inserted[k] = 0 => ~search(heap, root, k)
        /\ (op = "search" /\ inserted[arg] = 0) => ~found

(* A search for a key never inserted that ends in a leaf below the root    *)
(* whose slot keys[n] holds that very key.                                 *)
C4_Witness ==
    /\ Alive
    /\ op = "search"
    /\ ~found
    /\ inserted[arg] = 0
    /\ root # NullPtr
    /\ \E x \in Nodes :
          /\ x # root
          /\ heap[x].n < 2 * t - 1
          /\ ScanKeys(heap[x].keys, heap[x].n, 0, arg) = heap[x].n
          /\ heap[x].keys[heap[x].n] = arg

(* C5: search is read-only.  A call of search leaves the root reference    *)
(* and every node (n, keys, children, is_leaf) unchanged, hence also the   *)
(* traversal, which traverse computes from the root reference and the      *)
(* nodes alone; the same call on the state it leaves returns the result it *)
(* returned, and so does a second call right after the first.              *)
C5_SearchStep ==
    (op' = "search") =>
        /\ root' = root
        /\ heap' = heap
        /\ search(heap', root', arg') = found'
        /\ (op = "search" /\ arg = arg') => found' = found

C5_SearchReadOnly == [][C5_SearchStep]_vars

(* A successful search in a tree of at least two levels. *)
C5_Witness ==
    /\ Alive
    /\ op = "search"
    /\ found
    /\ Height >= 2

(* C6: every node holds at most 2t-1 keys and every node other than the    *)
(* root at least t-1.                                                      *)
C6_FanoutBounds ==
    Alive =>
        \A x \in Nodes :
            /\ 0 <= heap[x].n
            /\ heap[x].n <= 2 * t - 1
            /\ x # root => heap[x].n >= t - 1

(* After an insert, a tree with a full node other than the root and an     *)
(* internal node other than the root that holds the minimum t-1 keys.      *)
C6_Witness ==
    /\ Alive
    /\ op = "insert"
    /\ \E x \in Nodes : x # root /\ heap[x].n = 2 * t - 1
    /\ \E x \in Nodes : x # root /\ ~heap[x].is_leaf /\ heap[x].n = t - 1

(* C7: an internal node with n keys has its child slots 0..n non-null and  *)
(* all its other child slots null; a leaf has no non-null child slot.      *)
C7_ChildSlots ==
    Alive =>
        \A x \in Nodes :
            \A j \in 0..(2 * t - 1) :
                (heap[x].children[j] # NullPtr) <=> (~heap[x].is_leaf /\ j <= heap[x].n)

(* After an insert, an internal node that was split (it is not the newest  *)
(* node and its upper child slots were moved out) next to its sibling.     *)
C7_Witness ==
    /\ Alive
    /\ op = "insert"
    /\ \E x \in Nodes, z \in Nodes :
          /\ x < z
          /\ ~heap[x].is_leaf /\ ~heap[z].is_leaf
          /\ x # root /\ z # root
          /\ heap[x].n = t - 1

(* C8: all leaves of the tree are at the same depth.                       *)
C8_LeavesSameDepth ==
    (Alive /\ root # NullPtr) => Cardinality(LeafDepths(heap, root, 1)) = 1

(* After an insert, a tree of three levels with at least four leaves.      *)
C8_Witness ==
    /\ Alive
    /\ op = "insert"
    /\ Height = 3
    /\ Cardinality({x \in Nodes : heap[x].is_leaf}) >= 4

(* C9: an insert into the empty tree gives height 1; an insert into a      *)
(* tree whose root is not full keeps the height; an insert into a tree     *)
(* whose root is full raises the height by exactly 1; no step lowers the   *)
(* height or makes the tree empty again.  The tree has a height, and is    *)
(* Empty or Populated, while it exists: the step that ends it leaves no    *)
(* tree, and so no Empty tree that an insert could populate again.  A step *)
(* that leaves the nodes and the root reference as they are keeps the      *)
(* height, which is computed from them alone.                              *)
C9_Step ==
    (Alive' /\ <<heap, root, inserted>>' # <<heap, root, inserted>>) =>
        LET before == HeightOf(heap, root)
            after  == HeightOf(heap', root')
        IN  /\ IsInsertStep =>
                  /\ root = NullPtr => after = 1
                  /\ (root # NullPtr /\ heap[root].n < 2 * t - 1)
                        => after = before
                  /\ (root # NullPtr /\ heap[root].n = 2 * t - 1)
                        => after = before + 1
            /\ after >= before
            /\ root # NullPtr => root' # NullPtr

C9_HeightStateMachine == [][C9_Step]_vars

(* The tree right after the insert that made it three levels high: the     *)
(* root is an internal node with one key above internal nodes.             *)
C9_Witness ==
    /\ Alive
    /\ op = "insert"
    /\ Height = 3
    /\ heap[root].n = 1
    /\ NumInserted = 9

(* The sorted sequence s with k added. *)
InsertSorted(s, k) ==
    LET p == Cardinality({j \in 1..Len(s) : s[j] <= k})
    IN  SubSeq(s, 1, p) \o <<k>> \o SubSeq(s, p + 1, Len(s))

(* C10: an insert of k into a tree whose root holds 2t-1 keys leaves a new *)
(* internal root with one key, the median m = keys[t-1] of the old root;   *)
(* child 0 is the old root, cut to its lower t-1 keys and t children,      *)
(* child 1 a new node of the old root's leafness with the upper t-1 keys   *)
(* and t children; k is added below child 1 when k > m and below child 0   *)
(* otherwise.                                                              *)
C10_Step ==
    (IsInsertStep /\ root # NullPtr /\ heap[root].n = 2 * t - 1) =>
        LET k == arg'
            old == heap[root]
            m == old.keys[t - 1]
            lowKeys == [j \in 1..(t - 1) |-> old.keys[j - 1]]
            upKeys == [j \in 1..(t - 1) |-> old.keys[j + t - 1]]
            whole == node_traverse(heap, root)
            upper == TraverseFrom(heap, root, t)
            lower == SubSeq(whole, 1, Len(whole) - Len(upper) - 1)
            s == root'
            L == heap'[s].children[0]
            R == heap'[s].children[1]
        IN  /\ s \in 1..Len(heap') /\ s \notin Nodes
            /\ ~heap'[s].is_leaf
            /\ heap'[s].n = 1
            /\ heap'[s].keys[0] = m
            /\ L = root
            /\ R \in 1..Len(heap') /\ R \notin Nodes /\ R # s
            /\ heap'[L].is_leaf = old.is_leaf
            /\ heap'[R].is_leaf = old.is_leaf
            /\ node_traverse(heap', L)
                  = IF k > m THEN lower ELSE InsertSorted(lower, k)
            /\ node_traverse(heap', R)
                  = IF k > m THEN InsertSorted(upper, k) ELSE upper
            /\ old.is_leaf =>
                  /\ LiveKeys(heap'[L])
                        = IF k > m THEN lowKeys ELSE InsertSorted(lowKeys, k)
                  /\ LiveKeys(heap'[R])
                        = IF k > m THEN InsertSorted(upKeys, k) ELSE upKeys
            /\ ~old.is_leaf =>
                  /\ LiveKeys(heap'[L]) \in
                        {lowKeys} \cup {InsertSorted(lowKeys, q) : q \in Keys}
                  /\ LiveKeys(heap'[R]) \in
                        {upKeys} \cup {InsertSorted(upKeys, q) : q \in Keys}

C10_RootSplitResult == [][C10_Step]_vars

(* The instance t = 2, insert of four increasing keys (here -1, 0, 1, 2):  *)
(* root [0], left child [-1], right child [1, 2].                          *)
C10_Witness ==
    /\ Alive
    /\ op = "insert" /\ arg = 2
    /\ t = 2
    /\ Len(heap) = 3
    /\ root # NullPtr
    /\ ~heap[root].is_leaf
    /\ LiveKeys(heap[root]) = <<0>>
    /\ heap[root].children[0] # NullPtr /\ heap[root].children[1] # NullPtr
    /\ LiveKeys(heap[heap[root].children[0]]) = <<-1>>
    /\ LiveKeys(heap[heap[root].children[1]]) = <<1, 2>>
    /\ heap[heap[root].children[0]].is_leaf
    /\ heap[heap[root].children[1]].is_leaf

(* The keys of the subtree below child slot i of node x, as in-order       *)
(* sequence.                                                               *)
ChildKeys(h, x, i) == node_traverse(h, h[x].children[i])

(* Every key below child slot i of the internal node x lies between the    *)
(* separators keys[i-1] and keys[i], under the order relations lt (to the  *)
(* right separator) and gt (to the left one).                              *)
Separated(h, x, Lt(_, _), Gt(_, _)) ==
    \A i \in 0..h[x].n :
        LET s == ChildKeys(h, x, i)
        IN  \A j \in 1..Len(s) :
                /\ i < h[x].n => Lt(s[j], h[x].keys[i])
                /\ i > 0 => Gt(s[j], h[x].keys[i - 1])

StrictlyLess(a, b) == a < b
StrictlyGreater(a, b) == a > b
AtMost(a, b) == a <= b
AtLeast(a, b) == a >= b

(* C11 as stated: in every reachable state, for every internal node and    *)
(* child index i, every key below children[i] is strictly less than        *)
(* keys[i] and strictly greater than keys[i-1].                            *)
C11_StrictSeparators ==
    Alive =>
        \A x \in Nodes :
            ~heap[x].is_leaf => Separated(heap, x, StrictlyLess, StrictlyGreater)

(* C11 amended: every key below children[i] is less than or equal to       *)
(* keys[i] and greater than or equal to keys[i-1]; the inequalities are    *)
(* strict as long as no key has been inserted more than once.              *)
SeparatorsHold ==
    Alive =>
        \A x \in Nodes :
            ~heap[x].is_leaf =>
                /\ Separated(heap, x, AtMost, AtLeast)
                /\ (\A k \in Keys : inserted[k] <= 1)
                      => Separated(heap, x, StrictlyLess, StrictlyGreater)

(* C11 amended, of every reachable state: the separators of every         *)
(* internal node bound the keys below its children.                        *)
C11_Separators == []SeparatorsHold

(* A tree of three levels in which a key below a child slot of the root    *)
(* equals the separator next to it.                                        *)
C11_Witness ==
    /\ Alive
    /\ Height = 3
    /\ \E i \in 0..heap[root].n :
          LET s == ChildKeys(heap, root, i)
          IN  \E j \in 1..Len(s) :
                  \/ i < heap[root].n /\ s[j] = heap[root].keys[i]
                  \/ i > 0 /\ s[j] = heap[root].keys[i - 1]

(* The slots lo..hi of the array a, as a sequence. *)
Slots(a, lo, hi) == [j \in 1..(hi - lo + 1) |-> a[lo + j - 1]]

(* The effect of split_child(i, y) called on node x of heap h, where y is  *)
(* the full child i of the non-full x.                                     *)
SplitPost(h, x, i, y) ==
    \A post \in {split_child(h, x, i, y)} :
    \A z \in {post[x].children[i + 1]} :
    LET n == h[x].n
        before == LiveKeys(h[x]) \o LiveKeys(h[y])
        after  == LiveKeys(post[x]) \o LiveKeys(post[y]) \o LiveKeys(post[z])
    IN  /\ z \in 1..Len(post) /\ z \notin 1..Len(h)
        /\ post[y].n = t - 1
        /\ LiveKeys(post[y]) = Slots(h[y].keys, 0, t - 2)
        /\ post[z].n = t - 1
        /\ LiveKeys(post[z]) = Slots(h[y].keys, t, 2 * t - 2)
        /\ post[z].is_leaf = h[y].is_leaf
        /\ post[y].is_leaf = h[y].is_leaf
        /\ Slots(post[y].children, 0, t - 1) = Slots(h[y].children, 0, t - 1)
        /\ IF h[y].is_leaf
           THEN /\ post[y].children = h[y].children
                /\ \A j \in 0..(2 * t - 1) : post[z].children[j] = NullPtr
           ELSE /\ Slots(post[z].children, 0, t - 1)
                      = Slots(h[y].children, t, 2 * t - 1)
                /\ \A j \in t..(2 * t - 1) : post[y].children[j] = NullPtr
        /\ post[x].n = n + 1
        /\ post[x].keys[i] = h[y].keys[t - 1]
        /\ Slots(post[x].keys, 0, i - 1) = Slots(h[x].keys, 0, i - 1)
        /\ Slots(post[x].keys, i + 1, n) = Slots(h[x].keys, i, n - 1)
        /\ Slots(post[x].children, 0, i) = Slots(h[x].children, 0, i)
        /\ Slots(post[x].children, i + 2, n + 1)
              = Slots(h[x].children, i + 1, n)
        /\ \A b \in {before} : \A a \in {after} :
              /\ Len(a) = Len(b)
              /\ \A k \in Keys : Count(a, k) = Count(b, k)

(* C12: every split_child(i, y) that an insert makes on a full child y of  *)
(* a non-full parent leaves y with its lower t-1 keys, the new node z at   *)
(* children[i+1] with y's upper t-1 keys and y's leafness (and y's upper t *)
(* children, cleared in y, when y is internal), the parent with one key    *)
(* more, y's median at keys[i] and its other keys and children in their    *)
(* order; the keys of parent, y and z together are those of parent and y   *)
(* before.                                                                 *)
C12_Step ==
    IsInsertStep =>
        \A cs \in {insert_calls(heap, root, arg')} :
            \A j \in 1..Len(cs) :
                LET c == cs[j]
                IN  (/\ c.fn = "split_child"
                     /\ c.heap[c.node].children[c.i] = c.y
                     /\ c.heap[c.y].n = 2 * t - 1
                     /\ c.heap[c.node].n < 2 * t - 1)
                        => SplitPost(c.heap, c.node, c.i, c.y)

C12_SplitChildEffect == [][C12_Step]_vars

(* The state after an insert that split a full internal node y: the new   *)
(* node z stands right of y under a node x, whose key between them is the  *)
(* median that y still has in its slot t-1.                                *)
C12_Witness ==
    /\ Alive
    /\ op = "insert"
    /\ \E z \in NewNodes : \E x \in Nodes : \E i \in 0..(2 * t - 2) :
          /\ ~heap[z].is_leaf
          /\ ~heap[x].is_leaf
          /\ i < heap[x].n
          /\ heap[x].children[i + 1] = z
          /\ heap[x].children[i] \in 1..nodes_before
          /\ ~heap[heap[x].children[i]].is_leaf
          /\ heap[heap[x].children[i]].n = t - 1
          /\ heap[z].n = t - 1
          /\ heap[x].keys[i] = heap[heap[x].children[i]].keys[t - 1]

(* C13: every call of insert_non_full that an insert makes, the first one  *)
(* and every recursive one, is on a node that holds fewer than 2t-1 keys   *)
(* at the moment of the call.                                              *)
C13_Step ==
    IsInsertStep =>
        \A cs \in {insert_calls(heap, root, arg')} :
            \A j \in 1..Len(cs) :
                cs[j].fn = "insert_non_full" =>
                    cs[j].heap[cs[j].node].n < 2 * t - 1

C13_NonFullPrecondition == [][C13_Step]_vars

(* The state after an insert that called insert_non_full on an internal    *)
(* root one key short of full, split a child of it, which filled the root, *)
(* and went on into a half of that child.                                  *)
C13_Witness ==
    /\ Alive
    /\ op = "insert"
    /\ Len(heap) = nodes_before + 1
    /\ root \in 1..nodes_before
    /\ ~heap[root].is_leaf
    /\ heap[root].n = 2 * t - 1
    /\ \E i \in 1..heap[root].n : heap[root].children[i] = Len(heap)

(* C14: every split_child(i, y) made during an insert has y = children[i]  *)
(* of the calling node and y with exactly 2t-1 keys.  It is made either    *)
(* for the old root, as the first call of an insert that finds the root    *)
(* full, or by insert_non_full on the calling node for the child whose key *)
(* range holds k, and the next call is insert_non_full on y or on the new  *)
(* sibling of y.                                                           *)
C14_Step ==
    IsInsertStep =>
        \A cs \in {insert_calls(heap, root, arg')} :
            \A j \in 1..Len(cs) :
                cs[j].fn = "split_child" =>
                    LET c == cs[j]
                        h == c.heap
                        x == c.node
                    IN  /\ h[x].children[c.i] = c.y
                        /\ h[c.y].n = 2 * t - 1
                        /\ j < Len(cs)
                        /\ cs[j + 1].fn = "insert_non_full"
                        /\ cs[j + 1].node \in {c.y, Len(h) + 1}
                        /\ IF j = 1
                           THEN /\ root # NullPtr
                                /\ heap[root].n = 2 * t - 1
                                /\ c.y = root
                                /\ x = root'
                                /\ c.i = 0
                           ELSE /\ cs[j - 1].fn = "insert_non_full"
                                /\ cs[j - 1].node = x
                                /\ cs[j - 1].heap = h
                                /\ c.i > 0 => h[x].keys[c.i - 1] <= arg'
                                /\ c.i < h[x].n => arg' <= h[x].keys[c.i]

C14_SplitsJustInTime == [][C14_Step]_vars

(* The state after an insert that kept the root and split one child y, not *)
(* the first child of its node x: the new node is the next child of x, the *)
(* two halves hold the 2t-2 keys left of y and the new key, which lies     *)
(* between the keys of x around them.                                      *)
C14_Witness ==
    /\ Alive
    /\ op = "insert"
    /\ Len(heap) = nodes_before + 1
    /\ root \in 1..nodes_before
    /\ \E x \in 1..nodes_before : \E i \in 1..(2 * t - 2) :
          /\ ~heap[x].is_leaf
          /\ i < heap[x].n
          /\ heap[x].children[i + 1] = Len(heap)
          /\ heap[x].children[i] \in 1..nodes_before
          /\ heap[heap[x].children[i]].n + heap[Len(heap)].n = 2 * t - 1
          /\ heap[x].keys[i - 1] <= arg
          /\ i + 1 < heap[x].n => arg <= heap[x].keys[i + 1]

(* C15: after every insert the nodes form a tree owned from the root:      *)
(* every node but the root is referenced by exactly one child slot, which  *)
(* is one of the slots 0..n of an internal node; the root is referenced by *)
(* no slot; every node is reached from the root; and the teardown of the   *)
(* tree, which visits the slots 0..n of internal nodes, releases each node *)
(* exactly once: the release order computed for the tree after any insert  *)
(* holds each node once, and so does the one that the destructor leaves.   *)

(* The child slots of the heap h that hold a reference. *)
ChildRefs(h) ==
    {pj \in (1..Len(h)) \X (0..(2 * t - 1)) :
        h[pj[1]].children[pj[2]] # NullPtr}

RECURSIVE Reach(_, _, _)
Reach(h, x, fuel) ==
    {x} \cup
    IF h[x].is_leaf \/ fuel = 0
    THEN {}
    ELSE UNION {Reach(h, h[x].children[i], fuel - 1) :
                    i \in {j \in 0..h[x].n : h[x].children[j] # NullPtr}}

(* There are as many references as nodes other than the root and each of   *)
(* those nodes is referenced, so each is referenced exactly once and the   *)
(* root is not; likewise the teardown releases as many nodes as there are  *)
(* and releases each of them.                                              *)
Ownership(h, r) ==
    IF r = NullPtr
    THEN Len(h) = 0
    ELSE /\ \A P \in {ChildRefs(h)} :
               /\ Cardinality(P) = Len(h) - 1
               /\ {h[pj[1]].children[pj[2]] : pj \in P} = (1..Len(h)) \ {r}
               /\ \A pj \in P : ~h[pj[1]].is_leaf /\ pj[2] <= h[pj[1]].n
         /\ Reach(h, r, Len(h)) = 1..Len(h)
         /\ \A order \in {DeleteTree(h, r)} :
               /\ Len(order) = Len(h)
               /\ {order[j] : j \in 1..Len(order)} = 1..Len(h)

(* The step that ends the tree releases every allocated node exactly once, *)
(* each node after all the nodes of its subtree and the root last, and     *)
(* leaves no node allocated.                                               *)
C15_Teardown ==
    (Alive /\ ~Alive') =>
        /\ Len(released') = Len(heap)
        /\ {released'[j] : j \in 1..Len(released')} = 1..Len(heap)
        /\ \A a \in 1..Len(released') :
              ~heap[released'[a]].is_leaf =>
                  \A j \in 0..heap[released'[a]].n :
                      \E b \in 1..(a - 1) :
                          released'[b] = heap[released'[a]].children[j]
        /\ root # NullPtr => released'[Len(released')] = root
        /\ heap' = <<>>

C15_Step ==
    /\ IsInsertStep => Ownership(heap', root')
    /\ C15_Teardown

C15_ExclusiveOwnership == [][C15_Step]_vars

(* A tree of height 3 just after an insert that split an internal node,    *)
(* so that children changed owner: seven nodes, the last one released      *)
(* being the root.                                                         *)
C15_Witness ==
    /\ Alive
    /\ op = "insert"
    /\ Height = 3
    /\ Len(heap) >= 7
    /\ \E z \in NewNodes : z # root /\ ~heap[z].is_leaf
    /\ DeleteTree(heap, root)[Len(heap)] = root

(* C16, as the specification states it: the root reference changes in an *)
(* insert that finds the root full, to a new node that has the old root as *)
(* child 0, and in no other operation.  Each operation is one step, so the *)
(* reference has one value before it and one after it.                     *)
RootSplitStep == IsInsertStep /\ root # NullPtr /\ heap[root].n = 2 * t - 1

RootReplaced ==
    /\ root' # root
    /\ root' \notin 1..Len(heap)
    /\ root' \in 1..Len(heap')
    /\ ~heap'[root'].is_leaf
    /\ heap'[root'].children[0] = root

C16_OnlyRootSplitStep == IF RootSplitStep THEN RootReplaced ELSE root' = root

C16_OnlyRootSplitAssignsRoot == [][C16_OnlyRootSplitStep]_vars

(* C16, amended: the root reference changes in an insert that finds the    *)
(* root full, to a new node that has the old root as child 0, and in the   *)
(* insert into the empty tree, which sets it to a new leaf; no other       *)
(* insert, and no search or traverse, changes it.  The step that ends the  *)
(* tree stores the null reference, and leaves it or the old reference in   *)
(* the storage.                                                            *)
C16_Step ==
    IF RootSplitStep
    THEN RootReplaced
    ELSE IF IsInsertStep /\ root = NullPtr
         THEN /\ root' # NullPtr
              /\ root' \in 1..Len(heap')
              /\ heap'[root'].is_leaf
         ELSE IF Alive /\ ~Alive'
              THEN root' \in {NullPtr, root}
              ELSE root' = root

C16_RootAssignments == [][C16_Step]_vars

(* The state after an insert that split an internal root: the root is a   *)
(* node that the insert allocated, and its child 0 is the old root.        *)
C16_Witness ==
    /\ Alive
    /\ op = "insert"
    /\ nodes_before >= 1
    /\ root \in NewNodes
    /\ ~heap[root].is_leaf
    /\ heap[root].children[0] \in 1..nodes_before
    /\ ~heap[heap[root].children[0]].is_leaf

(* C17: when insert_non_full(k) on an internal node splits the child at   *)
(* index c, the separator promoted into keys[c] is the median of that      *)
(* child, and the next call is on children[c + 1] if k is greater than the *)
(* separator and on children[c] otherwise, a key equal to the separator    *)
(* going left; k is at least the separator on the left of the child it     *)
(* enters and at most the separator on its right.                          *)
C17_Step ==
    IsInsertStep =>
        \A cs \in {insert_calls(heap, root, arg')} :
            \A j \in 2..Len(cs) :
                cs[j].fn = "split_child" =>
                    /\ j < Len(cs)
                    /\ LET c   == cs[j].i
                           x   == cs[j].node
                           h1  == cs[j + 1].heap
                           sep == h1[x].keys[c]
                           e   == IF arg' > sep THEN c + 1 ELSE c
                       IN  /\ sep = cs[j].heap[cs[j].y].keys[t - 1]
                           /\ cs[j + 1].fn = "insert_non_full"
                           /\ cs[j + 1].node = h1[x].children[e]
                           /\ e > 0 => h1[x].keys[e - 1] <= arg'
                           /\ e < h1[x].n => arg' <= h1[x].keys[e]

C17_DescentAfterSplit == [][C17_Step]_vars

(* The state after an insert of a key equal to the separator that a child *)
(* split had just promoted: the key is the last key of the left half y,    *)
(* and the new right half z has t-1 keys.                                  *)
C17_Witness ==
    /\ Alive
    /\ op = "insert"
    /\ Len(heap) = nodes_before + 1
    /\ root \in 1..nodes_before
    /\ \E x \in 1..nodes_before : \E c \in 0..(2 * t - 2) :
          /\ ~heap[x].is_leaf
          /\ c < heap[x].n
          /\ heap[x].children[c + 1] = Len(heap)
          /\ heap[x].keys[c] = arg
          /\ heap[Len(heap)].n = t - 1
          /\ heap[heap[x].children[c]].n = t
          /\ heap[heap[x].children[c]].keys[t - 1] = arg

(* C18: every insert(k) ends with insert_non_full on a leaf, which gets k  *)
(* right after its keys that are at most k and before its greater keys,    *)
(* and no other node gets a key then.  Before that the heap changes only   *)
(* by split_child, which changes only its two arguments and the new        *)
(* sibling: the calling node gets the median of the split node at index i, *)
(* and the split node is cut to its lower t-1 keys.  A node that is        *)
(* neither called nor split in the insert is left as it was.               *)
PathNodes(cs) ==
    {cs[j].node : j \in 1..Len(cs)} \cup
    {cs[j].y : j \in {m \in 1..Len(cs) : cs[m].fn = "split_child"}}

LeafPlacement(pre, post, l, k) ==
    /\ pre[l].is_leaf
    /\ post[l].is_leaf
    /\ post[l].n = pre[l].n + 1
    /\ LiveKeys(post[l]) = InsertSorted(LiveKeys(pre[l]), k)
    /\ \E p \in 0..pre[l].n :
          /\ post[l].keys[p] = k
          /\ \A q \in 0..(p - 1) : pre[l].keys[q] <= k /\ post[l].keys[q] = pre[l].keys[q]
          /\ \A q \in p..(pre[l].n - 1) : pre[l].keys[q] > k /\ post[l].keys[q + 1] = pre[l].keys[q]
    /\ Len(post) = Len(pre)
    /\ \A w \in (1..Len(post)) \ {l} : post[w] = pre[w]

SplitFrame(h, h1, x, i, y) ==
    /\ Len(h1) = Len(h) + 1
    /\ \A w \in (1..Len(h)) \ {x, y} : h1[w] = h[w]
    /\ LiveKeys(h1[y]) = SubSeq(LiveKeys(h[y]), 1, t - 1)
    /\ LiveKeys(h1[x]) = SubSeq(LiveKeys(h[x]), 1, i) \o <<h[y].keys[t - 1]>> \o
                         SubSeq(LiveKeys(h[x]), i + 1, h[x].n)
    /\ ~h1[x].is_leaf

C18_Step ==
    IsInsertStep =>
        IF root = NullPtr
        THEN /\ Len(heap') = Len(heap) + 1
             /\ heap'[root'].is_leaf
             /\ LiveKeys(heap'[root']) = <<arg'>>
        ELSE \A cs \in {insert_calls(heap, root, arg')} :
               /\ Len(cs) >= 1
               /\ cs[Len(cs)].fn = "insert_non_full"
               /\ LeafPlacement(cs[Len(cs)].heap, heap', cs[Len(cs)].node, arg')
               /\ \A w \in 1..Len(heap) : cs[1].heap[w] = heap[w]
               /\ \A w \in (Len(heap) + 1)..Len(cs[1].heap) : cs[1].heap[w].n = 0
               /\ \A j \in 1..(Len(cs) - 1) :
                     IF cs[j].fn = "split_child"
                     THEN SplitFrame(cs[j].heap, cs[j + 1].heap,
                                     cs[j].node, cs[j].i, cs[j].y)
                     ELSE /\ cs[j + 1].heap = cs[j].heap
                          /\ ~cs[j].heap[cs[j].node].is_leaf
               /\ \A w \in (1..Len(heap)) \ PathNodes(cs) : heap'[w] = heap[w]

C18_KeyPlacedInOneLeaf == [][C18_Step]_vars

(* The state after an insert that split nothing and put a key not yet in  *)
(* the tree between two keys of a leaf below an internal root with more    *)
(* than two children.                                                      *)
C18_Witness ==
    /\ Alive
    /\ op = "insert"
    /\ Len(heap) = nodes_before
    /\ Len(heap) >= 4
    /\ ~heap[root].is_leaf
    /\ inserted[arg] = 1
    /\ \E l \in Nodes :
          /\ heap[l].is_leaf
          /\ heap[l].n >= 3
          /\ heap[l].keys[1] = arg
          /\ heap[l].keys[0] < arg
          /\ heap[l].keys[2] > arg

(* C19: every insert and every search returns after going down one path:  *)
(* the first node on which insert_non_full or search is called is the root *)
(* (a child of the new root in an insert that splits the root) and every   *)
(* next one is a child of the one before, so that one node per level is    *)
(* visited; an insert makes at most one split per level, each split being  *)
(* followed by a call on the next level and being of a child of the node   *)
(* visited last (of the new root); a search makes no split.  The number of *)
(* levels gone through is at most the height of the tree after the         *)
(* operation and at most the height before it plus one.                    *)
IsVisit(c) == c.fn \in {"insert_non_full", "search"}

ChildOf(h, p, c) ==
    ~h[p].is_leaf /\ \E j \in 0..h[p].n : h[p].children[j] = c

(* The nodes v, in order, go down from the root r of h (from a child of r  *)
(* when off = 1), each being a child of the one before.                    *)
PathFrom(h, r, v, off) ==
    /\ Len(v) >= 1 => IF off = 0 THEN v[1] = r ELSE ChildOf(h, r, v[1])
    /\ \A j \in 1..(Len(v) - 1) : ChildOf(h, v[j], v[j + 1])

SinglePath(h, r, cs, after, before) ==
    \A v \in {SelectSeq(cs, IsVisit)} :
        LET off == IF Len(cs) >= 1 /\ cs[1].fn = "split_child" THEN 1 ELSE 0
        IN  /\ PathFrom(h, r, [j \in 1..Len(v) |-> v[j].node], off)
            /\ \A j \in 1..Len(cs) :
                  ~IsVisit(cs[j]) =>
                      /\ j < Len(cs)
                      /\ IsVisit(cs[j + 1])
                      /\ ChildOf(h, cs[j].node, cs[j].y)
                      /\ ChildOf(h, cs[j].node, cs[j + 1].node)
            /\ Len(v) + off <= after
            /\ Len(v) + off <= before + 1
            /\ Len(cs) - Len(v) <= Len(v)

C19_InsertStep ==
    IsInsertStep =>
        \A cs \in {insert_calls(heap, root, arg')} :
            /\ SinglePath(heap', root', cs,
                          HeightOf(heap', root'), HeightOf(heap, root))
            /\ \A j \in 1..Len(cs) : cs[j].fn # "search"

(* A search leaves the tree as it is, so that in the state after search(k) *)
(* the calls of that search are those of a search for k in this state.     *)
C19_Searched ==
    (Alive /\ op = "search" /\ root # NullPtr) =>
        \A cs \in {search_calls(heap, root, arg)} :
            \A H \in {Height} :
                /\ SinglePath(heap, root, cs, H, H)
                /\ \A j \in 1..Len(cs) : cs[j].fn = "search"
                /\ Len(cs) <= H

(* C19: every search and every insert goes down one path of the tree.      *)
C19_OnePathPerOperation == []C19_Searched /\ [][C19_InsertStep]_vars

(* The state after an insert that split the root of a tree of height 2 and *)
(* nothing else, and then went down the two levels below the new root:     *)
(* three levels, the height of the tree before it plus one.                *)
C19_Witness ==
    /\ Alive
    /\ op = "insert"
    /\ Height = 3
    /\ root \in NewNodes
    /\ Len(heap) = nodes_before + 2

(* The number of live key slots of the nodes in S that hold k. *)
KeyCopies(S, k) ==
    Cardinality({xj \in S \X (0..(2 * t - 2)) :
                    xj[2] < heap[xj[1]].n /\ heap[xj[1]].keys[xj[2]] = k})

Leaves == {x \in Nodes : heap[x].is_leaf}

(* C20, as the specification states it: all keys live at leaf level, that  *)
(* is, every inserted key is held by a leaf as many times as it was        *)
(* inserted, and the leaves are all at the same depth.                     *)
C20_AllKeysInLeaves ==
    Alive =>
        /\ \A k \in Keys : KeyCopies(Leaves, k) = inserted[k]
        /\ root # NullPtr => Cardinality(LeafDepths(heap, root, 1)) = 1

(* C20, amended: every inserted key is held by the nodes of the tree as    *)
(* many times as it was inserted, by leaves and by internal nodes; every   *)
(* internal node holds at least one key, so that a tree of more than one   *)
(* level has keys above leaf level; the leaves are all at the same depth.  *)
KeysInNodesOfAllLevels ==
    Alive =>
        /\ \A k \in Keys : KeyCopies(Nodes, k) = inserted[k]
        /\ \A x \in Nodes \ Leaves : heap[x].n >= 1
        /\ root # NullPtr => Cardinality(LeafDepths(heap, root, 1)) = 1

(* C20 amended, of every reachable state: the inserted keys are held by    *)
(* leaves and internal nodes, and the leaves are all at the same depth.    *)
C20_KeysInNodesOfAllLevels == []KeysInNodesOfAllLevels

(* A tree of three levels in which some inserted key is held by internal   *)
(* nodes only.                                                             *)
C20_Witness ==
    /\ Alive
    /\ Height = 3
    /\ \E k \in Keys :
          /\ inserted[k] >= 1
          /\ KeyCopies(Leaves, k) = 0
          /\ KeyCopies(Nodes \ Leaves, k) = inserted[k]

(* The keys that the nodes of the tree hold in their live slots. *)
HeldKeys == UNION {{heap[x].keys[j] : j \in 0..(heap[x].n - 1)} : x \in Nodes}

(* The live keys of every node are non-decreasing; every key below child   *)
(* slot i of an internal node is at most keys[i] and at least keys[i-1];   *)
(* and search finds every key that a node of the tree holds.               *)
NonStrictOrder ==
    Alive =>
        /\ \A x \in Nodes :
              /\ NonDecreasing(LiveKeys(heap[x]))
              /\ ~heap[x].is_leaf => Separated(heap, x, AtMost, AtLeast)
        /\ \A k \in HeldKeys : search(heap, root, k)

(* C21: in every reachable state, also after inserts of repeated keys,     *)
(* the keys of each node are non-decreasing, the keys below children[i] of *)
(* an internal node are <= keys[i] and >= keys[i-1], and search finds      *)
(* every key held in the tree.                                             *)
C21_NonStrictOrder == []NonStrictOrder

(* The state after the insert of a key held at least three times, in which *)
(* an internal node has that key in two adjacent slots, so that every key  *)
(* below the child between them equals both separators.                    *)
C21_Witness ==
    /\ Alive
    /\ op = "insert"
    /\ inserted[arg] >= 3
    /\ \E x \in Nodes : \E j \in 0..(2 * t - 3) :
          /\ ~heap[x].is_leaf
          /\ j + 1 < heap[x].n
          /\ heap[x].keys[j] = arg
          /\ heap[x].keys[j + 1] = arg
          /\ Len(ChildKeys(heap, x, j + 1)) >= 1

(* The key slots are keys[0..2t-2] and the child slots children[0..2t-1]  *)
(* (the sizes that the constructor of a node gives the two arrays), and no *)
(* node is reached through a null reference.                               *)
InBounds(a) ==
    /\ a.keys \subseteq 0..(2 * t - 2)
    /\ a.children \subseteq 0..(2 * t - 1)
    /\ NullPtr \notin a.derefs

(* An insert: the slots that insert and each insert_non_full and           *)
(* split_child call of it touch are in bounds, split_child is called on a  *)
(* node that is not full, and no call goes through a null reference.       *)
C22_InsertStep ==
    IsInsertStep =>
        \A cs \in {insert_calls(heap, root, arg')} :
            /\ InBounds(insert_slots(heap,
                                     IF Len(cs) >= 2 THEN cs[2].heap ELSE heap,
                                     root, arg'))
            /\ \A j \in 1..Len(cs) :
                  IF cs[j].fn = "split_child"
                  THEN /\ InBounds(split_child_slots(cs[j].heap, cs[j].node,
                                                     cs[j].i, cs[j].y))
                       /\ cs[j].heap[cs[j].node].n < 2 * t - 1
                  ELSE InBounds(insert_non_full_slots(
                           cs[j].heap,
                           IF j + 2 <= Len(cs) /\ cs[j + 1].fn = "split_child"
                           THEN cs[j + 2].heap
                           ELSE cs[j].heap,
                           cs[j].node, arg'))

(* A search leaves the tree as it is, so the calls of the search(k) that   *)
(* led to a state are those of a search for k in that state; likewise a    *)
(* traversal that led to a state called traverse on each node of the tree  *)
(* of that state.                                                          *)
C22_Reads ==
    Alive =>
        /\ (op = "search" /\ root # NullPtr) =>
              \A cs \in {search_calls(heap, root, arg)} :
                  \A j \in 1..Len(cs) :
                      /\ InBounds(search_slots(cs[j].heap, cs[j].node, arg))
                      /\ ~search_guard(cs[j].heap, cs[j].node, arg)
        /\ (op = "traverse") =>
              \A x \in Nodes : InBounds(traverse_slots(heap, x))

(* C22: with t >= 2, every key slot that an insert, a search or a          *)
(* traversal reads or writes has an index in 0..2t-2 and every child slot  *)
(* an index in 0..2t-1; split_child is never called on a full node, so its *)
(* shifts write neither keys[2t-1] nor children[2t]; every reference that  *)
(* is followed is non-null, and the null-child guard of search is never    *)
(* taken.                                                                  *)
C22_StorageBounds == []C22_Reads /\ [][C22_InsertStep]_vars

(* The state after an insert in which split_child, called on a root with   *)
(* 2t-2 keys, shifted the last child of the root into the top slot         *)
(* children[2t-1] and its last key into keys[2t-2].                        *)
C22_Witness ==
    /\ Alive
    /\ op = "insert"
    /\ Len(heap) = nodes_before + 1
    /\ root \in 1..nodes_before
    /\ heap[root].n = 2 * t - 1
    /\ heap[root].children[2 * t - 1] \in 1..nodes_before
    /\ \E i \in 1..(2 * t - 2) : heap[root].children[i] = Len(heap)

=============================================================================
